---- MODULE Spec2Model ----
(***************************************************************************)
(* Data preparation notebook of MLHyperparameterTuning (src/unnamed/       *)
(* part_002): the questions / dupes / answers tables are cleaned, the      *)
(* duplicates are split into train, tune and test, every duplicate is      *)
(* paired with candidate questions, the pairs are labelled and sorted, and *)
(* the tables are written.  One action per notebook cell (or run of cells  *)
(* that rebinds the tables).                                               *)
(*                                                                         *)
(* A row of questions or dupes is [Id, AnswerId, Len]: Len is the length   *)
(* of the clean text (column Text), the only thing the notebook reads of   *)
(* it.  A row of answers is [Id, Len].  A table is a sequence of rows, in  *)
(* file order.  text_utilities (round_sample_strat, random_merge) is not   *)
(* among the sources; both are modelled from the specification's sections  *)
(* 4.2 and 4.3.                                                            *)
(***************************************************************************)
EXTENDS Integers, Sequences, FiniteSets, TLC

VARIABLES
    pc,                    \* the notebook cell that runs next
    error,                 \* the message of the exception raised, "" if none
    tune_size,             \* parameters cell: percent of duplicates in tune
    test_size,             \* parameters cell: percent of duplicates in test
    min_dupes,             \* parameters cell
    match,                 \* parameters cell
    questions,
    dupes,
    answers,
    dupes_train,
    dupes_tune,
    dupes_test,
    balanced_pairs_train,
    balanced_pairs_tune,
    balanced_pairs_test,
    files,                 \* what was written to output_path: name -> table
    subscription_name,     \* local run: parameters cell
    subscription_id,       \* local run: parameters cell, later the profile's
    az_default,            \* the Azure CLI's default subscription, "" if none
    az_calls,              \* the calls made to Azure, <<call, argument>> each
    steps,                 \* pipeline notebook: the step objects defined
    pipeline,              \* the names of the steps of the Pipeline object
    runs,                  \* the pipeline runs of the experiment, oldest first
    published,             \* ids of the workspace's published pipelines
    published_pipeline,    \* id of the pipeline this notebook published, 0 if none
    schedules,             \* the schedules of the workspace
    models                 \* the models registered in the workspace

vars == <<pc, error, tune_size, test_size, min_dupes, match, questions, dupes,
          answers, dupes_train, dupes_tune, dupes_test, balanced_pairs_train,
          balanced_pairs_tune, balanced_pairs_test, files, subscription_name,
          subscription_id, az_default, az_calls, steps, pipeline, runs,
          published, published_pipeline, schedules, models>>

params == <<tune_size, test_size, min_dupes, match>>
tables == <<questions, dupes, answers>>
splits == <<dupes_train, dupes_tune, dupes_test>>
pairs  == <<balanced_pairs_train, balanced_pairs_tune, balanced_pairs_test>>
\* the data preparation notebook's tables and parameters
prep == <<params, tables, splits, pairs, files>>
\* the local run notebook's variables
local == <<subscription_name, subscription_id, az_default, az_calls>>
\* the pipeline notebook's variables and the workspace they act on
cloud == <<steps, pipeline, runs, published, published_pipeline, schedules, models>>

----------------------------------------------------------------------------
(* Parameters of the notebook, as its parameters cell sets them.  Sizes are *)
(* percentages: 0.10 is 10.                                                 *)

NotebookTuneSize == 10
NotebookTestSize == 10
min_text == 150
NotebookMinDupes == 12
NotebookMatch == 40

(* Bounds of the model.                                                     *)
MaxRawDupes == 3      \* rows of the raw dupes table
MaxMinDupes == 2      \* min_dupes of the small runs is in 1..MaxMinDupes
MaxQuestions == 5     \* questions of the tidy tables
MaxMatch == 3         \* match of the small runs is in 1..MaxMatch
MaxGroup == 15        \* largest AnswerId group under the notebook's parameters
SmallSplitSize == 40  \* tune_size and test_size of the small runs, in percent

----------------------------------------------------------------------------
(* Tables                                                                   *)

Range(s) == {s[i] : i \in DOMAIN s}

Column(df, c) == {df[i][c] : i \in DOMAIN df}

Min(a, b) == IF a <= b THEN a ELSE b

\* variant: no row is taken for a repeat of an earlier one
DuplicatedKeepFirstMut(df, i) == FALSE
\* df.index.duplicated(keep='first') at position i
DuplicatedKeepFirst(df, i) == \E j \in 1..(i - 1) : df[j].Id = df[i].Id

RECURSIVE DropDuplicatedFrom(_, _)
DropDuplicatedFrom(df, i) ==
    IF i > Len(df) THEN <<>>
    ELSE IF DuplicatedKeepFirst(df, i) THEN DropDuplicatedFrom(df, i + 1)
    ELSE <<df[i]>> \o DropDuplicatedFrom(df, i + 1)

\* df[~df.index.duplicated(keep='first')]
DropDuplicated(df) == DropDuplicatedFrom(df, 1)

----------------------------------------------------------------------------
(* Cleaning                                                                 *)

SomeText(r) == r.Len > 0

\* cells "Keep only rows with some clean text."
DropEmpty ==
    /\ pc = "drop_empty"
    /\ questions' = SelectSeq(questions, SomeText)
    /\ answers' = SelectSeq(answers, SomeText)
    /\ dupes' = SelectSeq(dupes, SomeText)
    /\ pc' = "dedupe"
    /\ UNCHANGED <<error, params, splits, pairs, files, local, cloud>>

\* cell "remove them from the dataframes"
Dedupe ==
    /\ pc = "dedupe"
    /\ LET notQuestion(r) == r.Id \notin Column(questions, "Id")
           d1 == SelectSeq(dupes, notQuestion)
       IN  /\ questions' = DropDuplicated(questions)
           /\ dupes' = DropDuplicated(d1)
    /\ pc' = "closure"
    /\ UNCHANGED <<error, params, answers, splits, pairs, files, local, cloud>>

\* variant: the answers are left as they were
ClosureMut ==
    /\ pc = "closure"
    /\ LET qKeep(r) == /\ r.AnswerId \in Column(answers, "Id")
                       /\ r.AnswerId \in Column(dupes, "AnswerId")
           q1 == SelectSeq(questions, qKeep)
           dKeep(r) == r.AnswerId \in Column(q1, "AnswerId")
       IN  /\ questions' = q1
           /\ answers' = answers
           /\ dupes' = SelectSeq(dupes, dKeep)
    /\ pc' = "verify"
    /\ UNCHANGED <<error, params, splits, pairs, files, local, cloud>>
\* cell "keep only questions with answers and duplicates, and answers and
\* duplicates that have questions"
Closure ==
    /\ pc = "closure"
    /\ LET qKeep(r) == /\ r.AnswerId \in Column(answers, "Id")
                       /\ r.AnswerId \in Column(dupes, "AnswerId")
           q1 == SelectSeq(questions, qKeep)
           aKeep(r) == r.Id \in Column(q1, "AnswerId")
           dKeep(r) == r.AnswerId \in Column(q1, "AnswerId")
       IN  /\ questions' = q1
           /\ answers' = SelectSeq(answers, aKeep)
           /\ dupes' = SelectSeq(dupes, dKeep)
    /\ pc' = "verify"
    /\ UNCHANGED <<error, params, splits, pairs, files, local, cloud>>

\* the four conditions of the first integrity check, in the cell's order
VerifyMessage ==
    IF ~ (Column(questions, "AnswerId") \subseteq Column(answers, "Id"))
        THEN "Not all original questions have answers"
    ELSE IF ~ (Column(answers, "Id") \subseteq Column(questions, "AnswerId"))
        THEN "Not all answers have original questions."
    ELSE IF ~ (Column(questions, "AnswerId") \subseteq Column(dupes, "AnswerId"))
        THEN "Not all original questions have duplicates."
    ELSE IF ~ (Column(dupes, "AnswerId") \subseteq Column(questions, "AnswerId"))
        THEN "Not all duplicates have original questions."
    ELSE ""

\* cell "Verify the integrity of the remaining data."
Verify ==
    /\ pc = "verify"
    /\ error' = VerifyMessage
    /\ pc' = IF VerifyMessage = "" THEN "reset_index" ELSE "raised"
    /\ UNCHANGED <<params, tables, splits, pairs, files, local, cloud>>

\* cell "reset all dataframe indexes to use them as columns": Id, the index
\* so far, becomes the column Id; the rows and their order stay
ResetIndex ==
    /\ pc = "reset_index"
    /\ pc' = "min_text"
    /\ UNCHANGED <<error, params, tables, splits, pairs, files, local, cloud>>

\* variant: any clean text is long enough
LongTextMut(r) == r.Len > 0
LongText(r) == r.Len >= min_text

\* cell "filter the questions and duplicates to have at least min_text ..."
MinText ==
    /\ pc = "min_text"
    /\ questions' = SelectSeq(questions, LongText)
    /\ dupes' = SelectSeq(dupes, LongText)
    /\ pc' = "closure2"
    /\ UNCHANGED <<error, params, answers, splits, pairs, files, local, cloud>>

\* cell "Again, keep only questions with dupes and dupes of questions."
Closure2 ==
    /\ pc = "closure2"
    /\ LET qKeep(r) == r.AnswerId \in Column(dupes, "AnswerId")
           q1 == SelectSeq(questions, qKeep)
           dKeep(r) == r.AnswerId \in Column(q1, "AnswerId")
       IN  /\ questions' = q1
           /\ dupes' = SelectSeq(dupes, dKeep)
    /\ pc' = "min_dupes"
    /\ UNCHANGED <<error, params, answers, splits, pairs, files, local, cloud>>

\* dupes.groupby('AnswerId').AnswerId.count(), at AnswerId a
GroupCount(df, a) == Cardinality({i \in DOMAIN df : df[i].AnswerId = a})

\* variant: the count is not compared with min_dupes
AnswerIdMinMut(df, m) == Column(df, "AnswerId")
\* answerid_count.index[answerid_count >= min_dupes]
AnswerIdMin(df, m) == {a \in Column(df, "AnswerId") : GroupCount(df, a) >= m}

\* variant: the splits follow the filter at once
MinDupesMut ==
    /\ pc = "min_dupes"
    /\ LET answerid_min == AnswerIdMin(dupes, min_dupes)
           keep(r) == r.AnswerId \in answerid_min
       IN  /\ questions' = SelectSeq(questions, keep)
           /\ dupes' = SelectSeq(dupes, keep)
    /\ pc' = "split_test"
    /\ UNCHANGED <<error, params, answers, splits, pairs, files, local, cloud>>

\* cell "keep questions that have at least min_dupes duplicates, and then
\* keep only those duplicates"
MinDupes ==
    /\ pc = "min_dupes"
    /\ LET answerid_min == AnswerIdMin(dupes, min_dupes)
           keep(r) == r.AnswerId \in answerid_min
       IN  /\ questions' = SelectSeq(questions, keep)
           /\ dupes' = SelectSeq(dupes, keep)
    /\ pc' = "verify2"
    /\ UNCHANGED <<error, params, answers, splits, pairs, files, local, cloud>>

Verify2Message ==
    IF ~ (Column(questions, "AnswerId") \subseteq Column(dupes, "AnswerId"))
        THEN "Not all original questions have duplicates."
    ELSE IF ~ (Column(dupes, "AnswerId") \subseteq Column(questions, "AnswerId"))
        THEN "Not all duplicates have original questions."
    ELSE ""

\* cell "Once again, verify data integrity."
Verify2 ==
    /\ pc = "verify2"
    /\ error' = Verify2Message
    /\ pc' = IF Verify2Message = "" THEN "split_test" ELSE "raised"
    /\ UNCHANGED <<params, tables, splits, pairs, files, local, cloud>>

----------------------------------------------------------------------------
(* round_sample_strat (text_utilities, modelled from section 4.2): from     *)
(* each group take round(frac x group size) rows, without replacement.      *)
(* frac is in percent; round is the rounding of Python's round, half to     *)
(* even, computed on the exact product.  The sample keeps the rows in the   *)
(* order of the input table.                                                *)

\* variant: the fraction of the product is dropped
RoundMut(num, den) == num \div den
Round(num, den) ==
    LET q == num \div den
        r == num % den
    IN  IF 2 * r > den THEN q + 1
        ELSE IF 2 * r < den THEN q
        ELSE IF q % 2 = 0 THEN q ELSE q + 1

SampleCount(frac, size) == Round(frac * size, 100)

KSubsets(S, k) == {T \in SUBSET S : Cardinality(T) = k}

Group(df, a) == {i \in DOMAIN df : df[i].AnswerId = a}

RECURSIVE StratSamples(_, _, _)
StratSamples(df, keys, frac) ==
    IF keys = {} THEN {{}}
    ELSE LET a == CHOOSE k \in keys : TRUE
             G == Group(df, a)
         IN  {T \cup R : T \in KSubsets(G, SampleCount(frac, Cardinality(G))),
                         R \in StratSamples(df, keys \ {a}, frac)}

RECURSIVE Pick(_, _, _)
Pick(df, S, i) ==
    IF i > Len(df) THEN <<>>
    ELSE IF i \in S THEN <<df[i]>> \o Pick(df, S, i + 1)
    ELSE Pick(df, S, i + 1)

\* the possible results of round_sample_strat(df, df.AnswerId, frac=frac)
round_sample_strat(df, frac) ==
    {Pick(df, S, 1) : S \in StratSamples(df, Column(df, "AnswerId"), frac)}

----------------------------------------------------------------------------
(* Train, tune and test splits                                              *)

\* variant: the sampled rows stay in the remainder
WithoutIdsMut(df, sample) == df
\* df[~df.Id.isin(sample.Id)]
WithoutIds(df, sample) ==
    LET keep(r) == r.Id \notin Column(sample, "Id")
    IN  SelectSeq(df, keep)

\* variant: no AnswerId counted
NUniqueMut(df) == 0
\* x.AnswerId.unique().shape[0]
NUnique(df) == Cardinality(Column(df, "AnswerId"))

\* first half of the splitting cell: the test split and its check
SplitTest ==
    /\ pc = "split_test"
    /\ \E sample \in round_sample_strat(dupes, test_size) :
          /\ dupes_test' = sample
          /\ dupes_train' = WithoutIds(dupes, sample)
          /\ IF NUnique(sample) = NUnique(dupes)
                THEN pc' = "split_tune" /\ error' = ""
                ELSE /\ pc' = "raised"
                     /\ error' = "The number of unique questions in dupes_test is not equal to those in dupes."
    /\ UNCHANGED <<params, tables, dupes_tune, pairs, files, local, cloud>>

\* second half of the splitting cell: the tune split and its check, made
\* after dupes_train is rebound to the remainder
SplitTune ==
    /\ pc = "split_tune"
    /\ \E sample \in round_sample_strat(dupes_train, tune_size) :
          /\ dupes_tune' = sample
          /\ dupes_train' = WithoutIds(dupes_train, sample)
          /\ IF NUnique(sample) = NUnique(dupes_train')
                THEN pc' = "merge_train" /\ error' = ""
                ELSE /\ pc' = "raised"
                     /\ error' = "The number of unique questions in dupes_tune is not equal to those in dupes_train."
    /\ UNCHANGED <<params, tables, dupes_test, pairs, files, local, cloud>>

----------------------------------------------------------------------------
(* random_merge (text_utilities, modelled from section 4.3).  For each row  *)
(* d of A, in A's order: one row pairing d with its true canonical item    *)
(* (the first row of B with d's AnswerId), then N-1 rows pairing d with     *)
(* distinct rows of B drawn from those with another AnswerId; when N is at  *)
(* least the number of rows of B, d is paired with every row of B once.    *)
(* The candidates follow the match in B's order, n counting them from 0.   *)
(* It fails when d has no canonical item, and when fewer than N-1           *)
(* candidates exist to draw from.                                           *)

PairRow(d, q, n) ==
    [Id_x |-> d.Id, AnswerId_x |-> d.AnswerId, Text_x |-> d.Len,
     Id_y |-> q.Id, Text_y |-> q.Len, AnswerId_y |-> q.AnswerId, n |-> n]

Matches(d, B) == {j \in DOMAIN B : B[j].AnswerId = d.AnswerId}

TrueMatch(d, B) == CHOOSE j \in Matches(d, B) : \A k \in Matches(d, B) : j <= k

\* variant: only the row of the true match is kept out of the draw
NonMatchesMut(d, B) == DOMAIN B \ {TrueMatch(d, B)}
NonMatches(d, B) == DOMAIN B \ Matches(d, B)

RECURSIVE Candidates(_, _, _, _, _)
Candidates(d, B, S, j, n) ==
    IF j > Len(B) THEN <<>>
    ELSE IF j \in S
        THEN <<PairRow(d, B[j], n)>> \o Candidates(d, B, S, j + 1, n + 1)
    ELSE Candidates(d, B, S, j + 1, n)

\* the sets of candidate rows of B that d may be paired with besides its match
Draws(d, B, N) ==
    IF N >= Len(B) THEN {DOMAIN B \ {TrueMatch(d, B)}}
    ELSE KSubsets(NonMatches(d, B), N - 1)

\* variant: the match is not added to what was drawn
BlockMut(d, B, S) == Candidates(d, B, S, 1, 1)
Block(d, B, S) == <<PairRow(d, B[TrueMatch(d, B)], 0)>> \o Candidates(d, B, S, 1, 1)

NoCanonicalItem(A, B) == \E i \in DOMAIN A : Matches(A[i], B) = {}

SamplingImpossible(A, B, N) ==
    /\ N < Len(B)
    /\ \E i \in DOMAIN A : Cardinality(NonMatches(A[i], B)) < N - 1

random_merge_error(A, B, N) ==
    IF NoCanonicalItem(A, B) THEN "random_merge: a duplicate has no canonical item"
    ELSE IF SamplingImpossible(A, B, N) THEN "random_merge: more negative samples requested than exist"
    ELSE ""

RECURSIVE random_merge_from(_, _, _, _)
random_merge_from(A, B, N, i) ==
    IF i > Len(A) THEN {<<>>}
    ELSE {Block(A[i], B, S) \o rest :
             S \in Draws(A[i], B, N), rest \in random_merge_from(A, B, N, i + 1)}

\* the possible results of random_merge(A, B, N=N), when it does not fail
random_merge(A, B, N) == random_merge_from(A, B, N, 1)

----------------------------------------------------------------------------
(* Pair tables                                                              *)

\* variant: one candidate too many
TrainNMut == match + 1
\* N=match
TrainN == match

\* variant: tune and test sampled like train
TuneTestNMut == match
\* N=questions.shape[0]
TuneTestN == Len(questions)

\* cell balanced_pairs_train = random_merge(dupes_train, questions, N=match)
MergeTrain ==
    /\ pc = "merge_train"
    /\ LET msg == random_merge_error(dupes_train, questions, TrainN)
       IN  IF msg # ""
           THEN /\ pc' = "raised"
                /\ error' = msg
                /\ UNCHANGED balanced_pairs_train
           ELSE /\ balanced_pairs_train' \in random_merge(dupes_train, questions, TrainN)
                /\ pc' = "label_train"
                /\ UNCHANGED error
    /\ UNCHANGED <<params, tables, splits, balanced_pairs_tune, balanced_pairs_test, files, local, cloud>>

\* variant: the comparison inverted
LabelOfMut(r) == IF r.AnswerId_x = r.AnswerId_y THEN 0 ELSE 1
\* (df.AnswerId_x == df.AnswerId_y).astype(int)
LabelOf(r) == IF r.AnswerId_x = r.AnswerId_y THEN 1 ELSE 0

\* df['Label'] = ...; df = df[balanced_pairs_columns]
Labelled(df) ==
    [i \in DOMAIN df |->
        [Id_x |-> df[i].Id_x, AnswerId_x |-> df[i].AnswerId_x, Text_x |-> df[i].Text_x,
         Id_y |-> df[i].Id_y, Text_y |-> df[i].Text_y, AnswerId_y |-> df[i].AnswerId_y,
         Label |-> LabelOf(df[i]), n |-> df[i].n]]

\* cells "Create a label for each row" and "Keep only the relevant columns"
LabelTrain ==
    /\ pc = "label_train"
    /\ balanced_pairs_train' = Labelled(balanced_pairs_train)
    /\ pc' = "sort_train"
    /\ UNCHANGED <<error, params, tables, splits, balanced_pairs_tune, balanced_pairs_test, files, local, cloud>>

\* by=['Id_x', 'Label'], ascending=[True, False]: r sorts strictly before s
SortsBefore(r, s) ==
    \/ r.Id_x < s.Id_x
    \/ r.Id_x = s.Id_x /\ r.Label > s.Label

RECURSIVE Insert(_, _)
Insert(sorted, r) ==
    IF sorted = <<>> THEN <<r>>
    ELSE IF SortsBefore(r, sorted[Len(sorted)])
        THEN Insert(SubSeq(sorted, 1, Len(sorted) - 1), r) \o <<sorted[Len(sorted)]>>
    ELSE sorted \o <<r>>

RECURSIVE SortFrom(_, _, _)
SortFrom(df, i, sorted) ==
    IF i > Len(df) THEN sorted ELSE SortFrom(df, i + 1, Insert(sorted, df[i]))

\* variant: the table left as random_merge built it
sort_valuesMut(df) == df
\* df.sort_values(by=['Id_x', 'Label'], ascending=[True, False]); rows with
\* equal keys keep their order
sort_values(df) == SortFrom(df, 1, <<>>)

\* cell "Sort the data by the dupe ID and the Label."
SortTrain ==
    /\ pc = "sort_train"
    /\ balanced_pairs_train' = sort_values(balanced_pairs_train)
    /\ pc' = "merge_tune_test"
    /\ UNCHANGED <<error, params, tables, splits, balanced_pairs_tune, balanced_pairs_test, files, local, cloud>>

\* cell "For the tune and test sets, we match each duplicate with all the
\* original questions."
MergeTuneTest ==
    /\ pc = "merge_tune_test"
    /\ LET msgTune == random_merge_error(dupes_tune, questions, TuneTestN)
           msgTest == random_merge_error(dupes_test, questions, TuneTestN)
       IN  IF msgTune # ""
           THEN /\ pc' = "raised"
                /\ error' = msgTune
                /\ UNCHANGED <<balanced_pairs_tune, balanced_pairs_test>>
           ELSE /\ balanced_pairs_tune' \in random_merge(dupes_tune, questions, TuneTestN)
                /\ IF msgTest # ""
                   THEN /\ pc' = "raised"
                        /\ error' = msgTest
                        /\ UNCHANGED balanced_pairs_test
                   ELSE /\ balanced_pairs_test' \in random_merge(dupes_test, questions, TuneTestN)
                        /\ pc' = "label_tune_test"
                        /\ UNCHANGED error
    /\ UNCHANGED <<params, tables, splits, balanced_pairs_train, files, local, cloud>>

\* cells "Label the rows in same way" and "Keep only the relevant columns"
LabelTuneTest ==
    /\ pc = "label_tune_test"
    /\ balanced_pairs_tune' = Labelled(balanced_pairs_tune)
    /\ balanced_pairs_test' = Labelled(balanced_pairs_test)
    /\ pc' = "sort_tune_test"
    /\ UNCHANGED <<error, params, tables, splits, balanced_pairs_train, files, local, cloud>>

\* cell "Sort the data by dupe ID and Label."
SortTuneTest ==
    /\ pc = "sort_tune_test"
    /\ balanced_pairs_tune' = sort_values(balanced_pairs_tune)
    /\ balanced_pairs_test' = sort_values(balanced_pairs_test)
    /\ pc' = "save"
    /\ UNCHANGED <<error, params, tables, splits, balanced_pairs_train, files, local, cloud>>

\* variant: the questions are written in reverse order
SaveMut ==
    /\ pc = "save"
    /\ files' = [questions |-> [i \in DOMAIN questions |-> questions[Len(questions) + 1 - i]],
                 answers |-> answers,
                 dupes_train |-> dupes_train, dupes_tune |-> dupes_tune,
                 dupes_test |-> dupes_test,
                 balanced_pairs_train |-> balanced_pairs_train,
                 balanced_pairs_tune |-> balanced_pairs_tune,
                 balanced_pairs_test |-> balanced_pairs_test]
    /\ pc' = "done"
    /\ UNCHANGED <<error, params, tables, splits, pairs, local, cloud>>

\* cell "Save the datasets"
Save ==
    /\ pc = "save"
    /\ files' = [questions |-> questions, answers |-> answers,
                 dupes_train |-> dupes_train, dupes_tune |-> dupes_tune,
                 dupes_test |-> dupes_test,
                 balanced_pairs_train |-> balanced_pairs_train,
                 balanced_pairs_tune |-> balanced_pairs_tune,
                 balanced_pairs_test |-> balanced_pairs_test]
    /\ pc' = "done"
    /\ UNCHANGED <<error, params, tables, splits, pairs, local, cloud>>

Next ==
    \/ DropEmpty
    \/ Dedupe
    \/ Closure
    \/ Verify
    \/ ResetIndex
    \/ MinText
    \/ Closure2
    \/ MinDupes
    \/ Verify2
    \/ SplitTest
    \/ SplitTune
    \/ MergeTrain
    \/ LabelTrain
    \/ SortTrain
    \/ MergeTuneTest
    \/ LabelTuneTest
    \/ SortTuneTest
    \/ Save

----------------------------------------------------------------------------
(* The tables as read_csv_gz and clean_text leave them                      *)

Q(id, a, len) == [Id |-> id, AnswerId |-> a, Len |-> len]
A(id, len) == [Id |-> id, Len |-> len]

\* the AnswerIds of the raw tables
AnswerIds == {1, 2}
TextLens == {0, min_text - 1, min_text}

SeqsUpTo(S, n) == UNION {[1..k -> S] : k \in 0..n}

\* rows in ascending (Id, AnswerId, Len) order, none twice
Ascending(s) ==
    \A i \in 1..(Len(s) - 1) :
        \/ s[i].Id < s[i + 1].Id
        \/ s[i].Id = s[i + 1].Id /\ s[i].AnswerId < s[i + 1].AnswerId
        \/ s[i].Id = s[i + 1].Id /\ s[i].AnswerId = s[i + 1].AnswerId
              /\ s[i].Len < s[i + 1].Len

\* raw questions: Ids 1 and 2, in any order, an Id possibly twice
RawQuestionTables == SeqsUpTo([Id : {1, 2}, AnswerId : AnswerIds, Len : TextLens], 2)

\* raw answers: at most one row per AnswerId, with or without clean text
RawAnswerTables ==
    {s \in SeqsUpTo([Id : AnswerIds, Len : {0, min_text}], Cardinality(AnswerIds)) :
        \A i \in 1..(Len(s) - 1) : s[i].Id < s[i + 1].Id}

\* raw dupes: Ids from 2 (an Id of a question) on, an Id possibly twice
RawDupeTables ==
    {s \in SeqsUpTo([Id : 2..(MaxRawDupes + 1), AnswerId : AnswerIds, Len : TextLens],
                    MaxRawDupes) : Ascending(s)}

TidyAnswers == [a \in AnswerIds |-> A(a, min_text)]

TidyQuestionTables ==
    {<<Q(1, 1, min_text)>>,
     <<Q(1, 1, min_text), Q(2, 2, min_text)>>,
     <<Q(1, 1, min_text), Q(2, 1, min_text)>>}

TidyDupeTables ==
    {<<Q(3, 1, min_text), Q(4, 1, min_text), Q(5, 1, min_text)>>,
     <<Q(3, 1, min_text), Q(4, 2, min_text), Q(5, 1, min_text)>>}

\* the local run notebook not run: its parameters cell as it is written
LocalNotRun ==
    /\ subscription_name = "YOUR_SUBSCRIPTION_NAME"
    /\ subscription_id = "YOUR_SUBSCRIPTION_ID"
    /\ az_default = ""
    /\ az_calls = <<>>

\* the pipeline notebook not run, in a workspace with nothing published
CloudNotRun ==
    /\ steps = {}
    /\ pipeline = {}
    /\ runs = <<>>
    /\ published = {}
    /\ published_pipeline = 0
    /\ schedules = {}
    /\ models = {}

Start ==
    /\ pc = "drop_empty"
    /\ error = ""
    /\ LocalNotRun
    /\ CloudNotRun
    /\ dupes_train = <<>>
    /\ dupes_tune = <<>>
    /\ dupes_test = <<>>
    /\ balanced_pairs_train = <<>>
    /\ balanced_pairs_tune = <<>>
    /\ balanced_pairs_test = <<>>
    /\ files = <<>>

\* small raw tables with every defect the cleaning removes
Init ==
    /\ Start
    /\ tune_size = SmallSplitSize
    /\ test_size = SmallSplitSize
    /\ min_dupes \in 1..MaxMinDupes
    /\ match = MaxMatch
    /\ \/ /\ questions \in RawQuestionTables
          /\ answers \in RawAnswerTables
          /\ dupes \in TidyDupeTables
       \/ /\ questions \in TidyQuestionTables
          /\ answers = TidyAnswers
          /\ dupes \in RawDupeTables

Spec == Init /\ [][Next]_vars

\* the AnswerIds of k questions over two AnswerIds: 1 first, each next one
\* the same or one more; and three questions with an AnswerId each
AnswerIdMaps(k) ==
    {f \in [1..k -> {1, 2}] :
        /\ f[1] = 1
        /\ \A i \in 1..(k - 1) : f[i + 1] \in {f[i], f[i] + 1}}
    \cup {f \in [1..k -> {1, 2, 3}] : k = 3 /\ \A i \in 1..k : f[i] = i}

\* tidy tables: up to MaxQuestions questions, some sharing an AnswerId, and
\* 3 dupes per AnswerId, in descending Id order
InitPairs ==
    /\ Start
    /\ tune_size = SmallSplitSize
    /\ test_size = SmallSplitSize
    /\ min_dupes = 1
    /\ match \in 1..MaxMatch
    /\ \E k \in 1..MaxQuestions : \E f \in AnswerIdMaps(k) :
          /\ questions = [i \in 1..k |-> Q(i, f[i], min_text)]
          /\ answers = [a \in 1..f[k] |-> A(a, min_text)]
          /\ dupes = [i \in 1..(3 * f[k]) |-> Q(100 - i, ((i - 1) % f[k]) + 1, min_text)]

SpecPairs == InitPairs /\ [][Next]_vars

\* the notebook's parameters: two questions, 1..MaxGroup dupes of the first
\* and none or one of the second
InitNotebook ==
    /\ Start
    /\ tune_size = NotebookTuneSize
    /\ test_size = NotebookTestSize
    /\ min_dupes = NotebookMinDupes
    /\ match = NotebookMatch
    /\ questions = <<Q(1, 1, min_text), Q(2, 2, min_text)>>
    /\ answers = <<A(1, min_text), A(2, min_text)>>
    /\ \E g \in 1..MaxGroup : \E h \in 0..1 :
          dupes = [i \in 1..(g + h) |-> Q(100 - i, IF i <= g THEN 1 ELSE 2, min_text)]

SpecNotebook == InitNotebook /\ [][Next]_vars

\* the notebook's split sizes with no minimum of duplicates beyond one: the
\* groups of every size up to MaxGroup reach the splits
InitSplit ==
    /\ Start
    /\ tune_size = NotebookTuneSize
    /\ test_size = NotebookTestSize
    /\ min_dupes = 1
    /\ match = NotebookMatch
    /\ questions = <<Q(1, 1, min_text), Q(2, 2, min_text)>>
    /\ answers = <<A(1, min_text), A(2, min_text)>>
    /\ \E g \in 1..MaxGroup : \E h \in 0..1 :
          dupes = [i \in 1..(g + h) |-> Q(100 - i, IF i <= g THEN 1 ELSE 2, min_text)]

SpecSplit == InitSplit /\ [][Next]_vars

----------------------------------------------------------------------------
(* Local run notebook (src/03_Run_Locally.ipynb): the subscription check,   *)
(* the Azure CLI cells that select the subscription, and the calls that     *)
(* create the workspace and run the training script.  az_calls is the list  *)
(* of the calls made to Azure, each with the argument that matters here.    *)

\* the data preparation notebook not run: its parameters cell, no table yet
PrepNotRun ==
    /\ tune_size = NotebookTuneSize
    /\ test_size = NotebookTestSize
    /\ min_dupes = NotebookMinDupes
    /\ match = NotebookMatch
    /\ questions = <<>>
    /\ dupes = <<>>
    /\ answers = <<>>
    /\ dupes_train = <<>>
    /\ dupes_tune = <<>>
    /\ dupes_test = <<>>
    /\ balanced_pairs_train = <<>>
    /\ balanced_pairs_tune = <<>>
    /\ balanced_pairs_test = <<>>
    /\ files = <<>>

\* the subscriptions of the account
Subscriptions ==
    {[name |-> "Subscription A", id |-> "id-a"], [name |-> "Subscription B", id |-> "id-b"]}

SubscriptionNames == {s.name : s \in Subscriptions}
SubscriptionIds == {s.id : s \in Subscriptions}

\* variant: the parameters are never taken for placeholders
NoSubscriptionSuppliedMut == FALSE
\* subscription_name == "YOUR_SUBSCRIPTION_NAME" and subscription_id == "YOUR_SUBSCRIPTION_ID"
NoSubscriptionSupplied ==
    /\ subscription_name = "YOUR_SUBSCRIPTION_NAME"
    /\ subscription_id = "YOUR_SUBSCRIPTION_ID"

\* cell "Check that we have either a subscription name or ID. If the ID has
\* been supplied, then use that value."
CheckSubscription ==
    /\ pc = "check_subscription"
    /\ IF NoSubscriptionSupplied
       THEN /\ error' = "At least one of a subscription's name or ID must be supplied"
            /\ pc' = "raised"
            /\ UNCHANGED subscription_name
       ELSE /\ subscription_name' = IF subscription_id # "YOUR_SUBSCRIPTION_ID"
                                       THEN subscription_id ELSE subscription_name
            /\ pc' = "login"
            /\ UNCHANGED error
    /\ UNCHANGED <<subscription_id, az_default, az_calls, prep, cloud>>

\* cell "Login to Azure if not already logged in.": az account list, and
\* az login, which makes one of the subscriptions the default, when the list
\* is empty
Login ==
    /\ pc = "login"
    /\ IF az_default = ""
       THEN /\ az_default' \in SubscriptionIds
            /\ az_calls' = az_calls \o <<<<"az account list", "">>, <<"az login", "">>>>
       ELSE /\ az_calls' = az_calls \o <<<<"az account list", "">>, <<"az account list", "">>>>
            /\ UNCHANGED az_default
    /\ pc' = "set_subscription"
    /\ UNCHANGED <<error, subscription_name, subscription_id, prep, cloud>>

\* az account set --subscription: the subscription with this name or id
Selected(name_or_id) == {s.id : s \in {t \in Subscriptions : name_or_id \in {t.name, t.id}}}

\* cell "Set the selected subscription as the default."
SetSubscription ==
    /\ pc = "set_subscription"
    /\ az_calls' = Append(az_calls, <<"az account set", subscription_name>>)
    /\ IF Selected(subscription_name) = {}
       THEN UNCHANGED az_default
       ELSE az_default' \in Selected(subscription_name)
    /\ pc' = "get_subscription_id"
    /\ UNCHANGED <<error, subscription_name, subscription_id, prep, cloud>>

\* cell "Get the ID for the selected Azure subscription."
GetSubscriptionId ==
    /\ pc = "get_subscription_id"
    /\ subscription_id' = az_default
    /\ pc' = "create_workspace"
    /\ UNCHANGED <<error, subscription_name, az_default, az_calls, prep, cloud>>

\* cell ws = Workspace.create(name='hypetuning', subscription_id=subscription_id, ...)
CreateWorkspace ==
    /\ pc = "create_workspace"
    /\ az_calls' = Append(az_calls, <<"Workspace.create", subscription_id>>)
    /\ pc' = "create_experiment"
    /\ UNCHANGED <<error, subscription_name, subscription_id, az_default, prep, cloud>>

\* cell exp = Experiment(workspace=ws, name='hypetuning')
CreateExperiment ==
    /\ pc = "create_experiment"
    /\ az_calls' = Append(az_calls, <<"Experiment", "hypetuning">>)
    /\ pc' = "submit_estimator"
    /\ UNCHANGED <<error, subscription_name, subscription_id, az_default, prep, cloud>>

\* cell run = exp.submit(est), est with compute_target='local'
SubmitEstimator ==
    /\ pc = "submit_estimator"
    /\ az_calls' = Append(az_calls, <<"submit", "local">>)
    /\ pc' = "wait_for_run"
    /\ UNCHANGED <<error, subscription_name, subscription_id, az_default, prep, cloud>>

\* cell run_status = run.wait_for_completion(): the run ends Completed or
\* Failed, and a failed run is raised
WaitForRun ==
    /\ pc = "wait_for_run"
    /\ \E status \in {"Completed", "Failed"} :
          /\ az_calls' = Append(az_calls, <<"wait_for_completion", status>>)
          /\ IF status = "Failed"
             THEN pc' = "raised" /\ error' = "the run failed"
             ELSE pc' = "get_metrics" /\ UNCHANGED error
    /\ UNCHANGED <<subscription_name, subscription_id, az_default, prep, cloud>>

\* cell run.get_metrics()
GetMetrics ==
    /\ pc = "get_metrics"
    /\ az_calls' = Append(az_calls, <<"get_metrics", "">>)
    /\ pc' = "download_file"
    /\ UNCHANGED <<error, subscription_name, subscription_id, az_default, prep, cloud>>

\* cell run.download_file(os.path.join('outputs', 'local_model.pkl'), ...)
DownloadFile ==
    /\ pc = "download_file"
    /\ az_calls' = Append(az_calls, <<"download_file", "outputs/local_model.pkl">>)
    /\ pc' = "done"
    /\ UNCHANGED <<error, subscription_name, subscription_id, az_default, prep, cloud>>

NextLocal ==
    \/ CheckSubscription
    \/ Login
    \/ SetSubscription
    \/ GetSubscriptionId
    \/ CreateWorkspace
    \/ CreateExperiment
    \/ SubmitEstimator
    \/ WaitForRun
    \/ GetMetrics
    \/ DownloadFile

\* the parameters cell left as it is or edited to a name, an id or both, of
\* the account's subscriptions or of none ("Subscription C", "id-c"); the
\* CLI logged in or not
InitLocal ==
    /\ pc = "check_subscription"
    /\ error = ""
    /\ subscription_name \in {"YOUR_SUBSCRIPTION_NAME", "Subscription C"} \cup SubscriptionNames
    /\ subscription_id \in {"YOUR_SUBSCRIPTION_ID", "id-c"} \cup SubscriptionIds
    /\ az_default \in {""} \cup SubscriptionIds
    /\ az_calls = <<>>
    /\ PrepNotRun
    /\ CloudNotRun

SpecLocal == InitLocal /\ [][NextLocal]_vars

----------------------------------------------------------------------------
(* Pipeline notebook (src/unnamed/part_001): the four steps are defined,    *)
(* the Pipeline is built from the last of them, submitted and waited for,   *)
(* published, and scheduled.  A step object is [name, inputs, outputs,      *)
(* run_after]; a run of the pipeline gives every step a status, and the     *)
(* service starts a step when the steps it depends on have finished.  The   *)
(* two script steps run Best_Hyperparameters.py and Register_Model.py,      *)
(* which the notebook writes.  The cells after the schedule only read       *)
(* published_pipeline.endpoint and are left out.                            *)

(* Bounds of the pipeline notebook's model.                                 *)
MaxPublished == 2     \* pipelines published in the workspace before the notebook
MaxRuns == 2          \* runs of the pipeline: the notebook's and the schedule's

tune_step_name == "tune_model"
bh_step_name == "best_parameters"
bm_step_name == "best_model"
rm_step_name == "register_model"
\* PipelineParameter(name="model_name", default_value="FAQ_ranker")
model_name == "FAQ_ranker"
\* the values a run may give the pipeline parameter model_name
ModelNames == {model_name, "FAQ_ranker_v2"}
bh_hyperparameters_file == "hyperparameters.json"
\* parser.add_argument("--delete", ..., default="estimators")
delete_default == "estimators"

Step(name, inputs, outputs, after) ==
    [name |-> name, inputs |-> inputs, outputs |-> outputs, run_after |-> after]

tune_step == Step(tune_step_name, {"data_folder"}, {}, {})
\* with bh_step.run_after(tune_step)
bh_step == Step(bh_step_name, {}, {"bh_steps_data"}, {tune_step_name})
bm_step == Step(bm_step_name, {"data_folder", "bh_steps_data"}, {}, {})
\* with rm_step.run_after(bm_step)
rm_step == Step(rm_step_name, {}, {}, {bm_step_name})

\* cell "Create AML Pipeline Tuning Step"
DefineTuneStep ==
    /\ pc = "tune_step"
    /\ steps' = steps \cup {tune_step}
    /\ pc' = "bh_step"
    /\ UNCHANGED <<error, prep, local, pipeline, runs, published, published_pipeline,
                   schedules, models>>

\* cell "Creating PythonScript Step for AML pipeline to get the best run's
\* hyperparameters."
DefineBhStep ==
    /\ pc = "bh_step"
    /\ steps' = steps \cup {bh_step}
    /\ pc' = "bm_step"
    /\ UNCHANGED <<error, prep, local, pipeline, runs, published, published_pipeline,
                   schedules, models>>

\* cell "Create AML Pipeline Best Model Step"
DefineBmStep ==
    /\ pc = "bm_step"
    /\ steps' = steps \cup {bm_step}
    /\ pc' = "rm_step"
    /\ UNCHANGED <<error, prep, local, pipeline, runs, published, published_pipeline,
                   schedules, models>>

\* cell "Creating PythonScript Step for AML pipeline to register the best model."
DefineRmStep ==
    /\ pc = "rm_step"
    /\ steps' = steps \cup {rm_step}
    /\ pc' = "create_pipeline"
    /\ UNCHANGED <<error, prep, local, pipeline, runs, published, published_pipeline,
                   schedules, models>>

\* variant: only run_after makes a step depend on another
PredecessorsMut(S, s) == {p \in S : p.name \in s.run_after}
\* the steps of S that s depends on: those it runs after and those that
\* make one of its inputs
Predecessors(S, s) ==
    {p \in S : p.name \in s.run_after \/ p.outputs \cap s.inputs # {}}

\* "Pipeline walks the dependency graph to include the other steps."
RECURSIVE Upstream(_, _)
Upstream(S, found) ==
    LET more == UNION {Predecessors(S, s) : s \in found}
    IN  IF more \subseteq found THEN found ELSE Upstream(S, found \cup more)

\* cell pipeline = Pipeline(workspace=ws, steps=[rm_step]); pipeline.validate()
CreatePipeline ==
    /\ pc = "create_pipeline"
    /\ pipeline' = Upstream(steps, {rm_step})
    /\ pc' = "submit"
    /\ UNCHANGED <<error, prep, local, steps, runs, published, published_pipeline,
                   schedules, models>>

\* a run of the pipeline, of the published pipeline id or of the Pipeline
\* object itself (0), with a value of the parameter model_name, no step
\* started.  best_run is the HyperDrive run's best run by primary metric,
\* <<>> for None and else <<its argument list>>; delete is the --delete
\* option of Best_Hyperparameters.py, which bh_step does not pass;
\* bh_steps_data is the files of the PipelineData, error the exception of
\* Best_Hyperparameters.py, outputs the files of the best_model step's run.
NewRun(id, name) ==
    [pipeline_id |-> id, model_name |-> name,
     status |-> [n \in {s.name : s \in pipeline} |-> "NotStarted"],
     best_run |-> <<>>, delete |-> delete_default, bh_steps_data |-> {},
     error |-> "", outputs |-> {}]

\* first line of the cell: pipeline_run = exp.submit(pipeline, continue_on_step_failure=True)
Submit ==
    /\ pc = "submit"
    /\ runs' = Append(runs, NewRun(0, model_name))
    /\ pc' = "wait_for_completion"
    /\ UNCHANGED <<error, prep, local, steps, pipeline, published, published_pipeline,
                   schedules, models>>

\* the step has not started and the steps it depends on have finished
Startable(run, s) ==
    /\ run.status[s.name] = "NotStarted"
    /\ \A p \in Predecessors(pipeline, s) : run.status[p.name] = "Finished"

\* the service starts a step of a run
StartStep(r, s) ==
    /\ Startable(runs[r], s)
    /\ runs' = [runs EXCEPT ![r].status[s.name] = "Running"]
    /\ UNCHANGED <<pc, error, prep, local, steps, pipeline, published, published_pipeline,
                   schedules, models>>

\* the steps that run TrainClassifier.py: HyperDriveStep and EstimatorStep
TrainingSteps == {tune_step_name, bm_step_name}

\* the argument lists of the runs HyperDrive makes of TrainClassifier.py:
\* the step's arguments, then the sampled hyperparameters
HyperDriveArguments ==
    {<<"--data-folder", "data", "--estimators", "1", "--ngrams", n, "--match", "20",
       "--min_child_samples", "10", "--unweighted", u>> :
          n \in {"1", "4"}, u \in {"Yes"}}

\* hd_run.get_best_run_by_primary_metric(): None, or a run with its arguments
BestRuns == {<<>>} \cup {<<a>> : a \in HyperDriveArguments}

\* os.path.join(dir, file)
Join(dir, file) == dir \o "/" \o file

\* the file TrainClassifier.py leaves in its run's outputs when given
\* --save: outputs/local_model.pkl for --save local_model
SavedModel(save) == Join("outputs", save \o ".pkl")

\* bm_step's "--save", model_name
bm_save(run) == run.model_name

\* a training step ends, finished or failed: the HyperDrive step with its
\* best run, the estimator step with the model it saved
FinishTraining(r, n) ==
    /\ n \in DOMAIN runs[r].status
    /\ runs[r].status[n] = "Running"
    /\ \E outcome \in {"Finished", "Failed"} : \E best \in BestRuns :
          runs' = [runs EXCEPT
                      ![r].status[n] = outcome,
                      ![r].best_run = IF n = tune_step_name /\ outcome = "Finished"
                                         THEN best ELSE @,
                      ![r].outputs = IF n = bm_step_name /\ outcome = "Finished"
                                        THEN {SavedModel(bm_save(runs[r]))} ELSE @]
    /\ UNCHANGED <<pc, error, prep, local, steps, pipeline, published, published_pipeline,
                   schedules, models>>

\* pipeline_run.find_step_run(name): the status of that step's run, none
\* when the step has no run yet
StepStatus(run, n) == IF n \in DOMAIN run.status THEN run.status[n] ELSE "NotStarted"

\* str.strip(s, "-"), one end at a time
RECURSIVE lstrip(_, _)
lstrip(s, c) == IF s # "" /\ Head(s) = c THEN lstrip(Tail(s), c) ELSE s

RECURSIVE rstrip(_, _)
rstrip(s, c) ==
    IF s # "" /\ SubSeq(s, Len(s), Len(s)) = c
        THEN rstrip(SubSeq(s, 1, Len(s) - 1), c) ELSE s

\* variant: only the leading characters are stripped
stripMut(s, c) == lstrip(s, c)
strip(s, c) == rstrip(lstrip(s, c), c)

\* the first position of sep in s from i on, 0 if none
RECURSIVE find(_, _, _)
find(s, sep, i) ==
    IF i > Len(s) THEN 0
    ELSE IF SubSeq(s, i, i) = sep THEN i
    ELSE find(s, sep, i + 1)

\* s.split(sep), sep of one character
RECURSIVE str_split(_, _)
str_split(s, sep) ==
    LET i == find(s, sep, 1)
    IN  IF i = 0 THEN <<s>>
        ELSE <<SubSeq(s, 1, i - 1)>> \o str_split(SubSeq(s, i + 1, Len(s)), sep)

\* dict(zip(map(str.strip, parameter_values[::2], ...), parameter_values[1::2])):
\* zip stops with the shorter list, and of a name given twice the last
\* value stays
zip_dict(parameter_values) ==
    LET n == Len(parameter_values) \div 2
        name(i) == strip(parameter_values[2 * i - 1], "-")
        last(k) == CHOOSE i \in 1..n :
                       name(i) = k /\ \A j \in 1..n : name(j) = k => j <= i
    IN  [k \in {name(i) : i \in 1..n} |-> parameter_values[2 * last(k)]]

\* for key in args.delete.split(","): if key in best_parameters: del ...
best_parameters(parameter_values, delete) ==
    LET d == zip_dict(parameter_values)
    IN  [k \in DOMAIN d \ Range(str_split(delete, ",")) |-> d[k]]

\* the exception Best_Hyperparameters.py ends with in this run, "" if none
BestHyperparametersError(run) ==
    IF StepStatus(run, tune_step_name) = "NotStarted"
        THEN "IndexError: list index out of range"
    ELSE IF StepStatus(run, tune_step_name) = "Failed"
        THEN "the HyperDrive run failed"
    ELSE IF run.best_run = <<>> THEN "No best run was found"
    ELSE ""

\* json.dump(best_parameters, fp) to hyperparameters_path
HyperparametersFile(run) ==
    [file |-> bh_hyperparameters_file,
     content |-> best_parameters(run.best_run[1], run.delete)]

\* variant: the file is written before the best run is looked at
BestHyperparametersMut(r) ==
    /\ bh_step_name \in DOMAIN runs[r].status
    /\ runs[r].status[bh_step_name] = "Running"
    /\ StepStatus(runs[r], tune_step_name) # "Running"
    /\ LET msg == BestHyperparametersError(runs[r])
       IN  runs' = [runs EXCEPT
                       ![r].status[bh_step_name] = IF msg = "" THEN "Finished" ELSE "Failed",
                       ![r].error = msg,
                       ![r].bh_steps_data =
                           IF msg = "" THEN {HyperparametersFile(runs[r])}
                           ELSE {[file |-> bh_hyperparameters_file, content |-> <<>>]}]
    /\ UNCHANGED <<pc, error, prep, local, steps, pipeline, published, published_pipeline,
                   schedules, models>>

\* scripts/Best_Hyperparameters.py: find the HyperDrive step's run, wait for
\* it, raise when there is no best run, else write the hyperparameters
BestHyperparameters(r) ==
    /\ bh_step_name \in DOMAIN runs[r].status
    /\ runs[r].status[bh_step_name] = "Running"
    /\ StepStatus(runs[r], tune_step_name) # "Running"
    /\ LET msg == BestHyperparametersError(runs[r])
       IN  runs' = [runs EXCEPT
                       ![r].status[bh_step_name] = IF msg = "" THEN "Finished" ELSE "Failed",
                       ![r].error = msg,
                       ![r].bh_steps_data =
                           IF msg = "" THEN {HyperparametersFile(runs[r])} ELSE @]
    /\ UNCHANGED <<pc, error, prep, local, steps, pipeline, published, published_pipeline,
                   schedules, models>>

\* variant: the model is looked for under the parameter's default value
rm_model_nameMut(run) == model_name
\* rm_step's "--model-name", model_name
rm_model_name(run) == run.model_name

\* model_path = os.path.join(args.outputs, "{}.pkl".format(model_name)),
\* with "--outputs", "outputs"
model_path(name) == Join("outputs", name \o ".pkl")

\* scripts/Register_Model.py: find the estimator step's run, wait for it,
\* register its model; register_model fails when the run has no such file
RegisterModel(r) ==
    /\ rm_step_name \in DOMAIN runs[r].status
    /\ runs[r].status[rm_step_name] = "Running"
    /\ LET es == StepStatus(runs[r], bm_step_name)
           name == rm_model_name(runs[r])
       IN  /\ es # "Running"
           /\ IF es = "Finished" /\ model_path(name) \in runs[r].outputs
              THEN /\ models' = models \cup
                          {[name |-> name, path |-> model_path(name), run |-> r]}
                   /\ runs' = [runs EXCEPT ![r].status[rm_step_name] = "Finished"]
              ELSE /\ runs' = [runs EXCEPT ![r].status[rm_step_name] = "Failed"]
                   /\ UNCHANGED models
    /\ UNCHANGED <<pc, error, prep, local, steps, pipeline, published, published_pipeline,
                   schedules>>

\* no step of the run is running and none can start
RunComplete(run) ==
    \A s \in pipeline : run.status[s.name] # "Running" /\ ~ Startable(run, s)

\* variant: the cell goes on without waiting for the run
WaitForCompletionMut ==
    /\ pc = "wait_for_completion"
    /\ pc' = "publish"
    /\ UNCHANGED <<error, prep, local, cloud>>

\* second line of the cell: pipeline_run.wait_for_completion(show_output=True),
\* which returns when the run is over and raises when it failed
WaitForCompletion ==
    /\ pc = "wait_for_completion"
    /\ RunComplete(runs[1])
    /\ IF \E n \in DOMAIN runs[1].status : runs[1].status[n] # "Finished"
       THEN pc' = "raised" /\ error' = "the pipeline run failed"
       ELSE pc' = "publish" /\ UNCHANGED error
    /\ UNCHANGED <<prep, local, cloud>>

\* cell published_pipeline = pipeline.publish(name="HyperDrive Pipeline", ...):
\* the service gives the published pipeline an id of its own
Publish ==
    /\ pc = "publish"
    /\ \E id \in (1..(MaxPublished + 1)) \ published :
          /\ published' = published \cup {id}
          /\ published_pipeline' = id
    /\ pc' = "schedule"
    /\ UNCHANGED <<error, prep, local, steps, pipeline, runs, schedules, models>>

\* cell schedule = Schedule.create(..., pipeline_id=published_pipeline.id, ...)
CreateSchedule ==
    /\ pc = "schedule"
    /\ schedules' = schedules \cup
          {[name |-> "hypetuning", pipeline_id |-> published_pipeline,
            experiment_name |-> "hypetuning", frequency |-> "Hour", interval |-> 1]}
    /\ pc' = "done"
    /\ UNCHANGED <<error, prep, local, steps, pipeline, runs, published,
                   published_pipeline, models>>

\* a schedule submits a run of its pipeline: one at once, "since a starting
\* time for the schedule is not supplied", then one every hour
ScheduledRun ==
    /\ Len(runs) < MaxRuns
    /\ \E s \in schedules : runs' = Append(runs, NewRun(s.pipeline_id, model_name))
    /\ UNCHANGED <<pc, error, prep, local, steps, pipeline, published, published_pipeline,
                   schedules, models>>

\* a caller of published_pipeline.endpoint submits a run of the published
\* pipeline and gives model_name a value
EndpointRun ==
    /\ Len(runs) < MaxRuns
    /\ published_pipeline # 0
    /\ \E name \in ModelNames : runs' = Append(runs, NewRun(published_pipeline, name))
    /\ UNCHANGED <<pc, error, prep, local, steps, pipeline, published, published_pipeline,
                   schedules, models>>

NextPipeline ==
    \/ DefineTuneStep
    \/ DefineBhStep
    \/ DefineBmStep
    \/ DefineRmStep
    \/ CreatePipeline
    \/ Submit
    \/ \E r \in DOMAIN runs : \E s \in pipeline : StartStep(r, s)
    \/ \E r \in DOMAIN runs : \E n \in TrainingSteps : FinishTraining(r, n)
    \/ \E r \in DOMAIN runs : BestHyperparameters(r)
    \/ \E r \in DOMAIN runs : RegisterModel(r)
    \/ WaitForCompletion
    \/ Publish
    \/ CreateSchedule
    \/ ScheduledRun
    \/ EndpointRun

\* the notebook at its first step cell, in a workspace that may hold
\* pipelines published before
InitPipeline ==
    /\ pc = "tune_step"
    /\ error = ""
    /\ PrepNotRun
    /\ LocalNotRun
    /\ steps = {}
    /\ pipeline = {}
    /\ runs = <<>>
    /\ published \in SUBSET (1..MaxPublished)
    /\ published_pipeline = 0
    /\ schedules = {}
    /\ models = {}

SpecPipeline == InitPipeline /\ [][NextPipeline]_vars

----------------------------------------------------------------------------
(* Best_Hyperparameters.py on its own: the script about to run in a run of  *)
(* the pipeline whose HyperDrive step has finished, for any best run and    *)
(* any --delete option.                                                     *)

\* argument lists of a best run: HyperDrive's, and lists with a name twice,
\* a name without a value, dashes at both ends of a name or nothing else
ScriptArguments ==
    HyperDriveArguments \cup
    {<<"--estimators", "1", "--estimators", "8000", "--match", "20">>,
     <<"--match--", "20", "-estimators-", "1", "ngrams", "2">>,
     <<"--ngrams", "2", "--match">>,
     <<"--", "1", "estimators", "2", "--n-grams", "3">>,
     <<"--unweighted", "--estimators", "1", "--ngrams">>,
     <<>>}

DeleteOptions ==
    {delete_default, "", "ngrams,match", "match,,estimators", "--estimators", "n-grams,unweighted"}

InitScript ==
    /\ pc = "wait_for_completion"
    /\ error = ""
    /\ PrepNotRun
    /\ LocalNotRun
    /\ steps = {tune_step, bh_step, bm_step, rm_step}
    /\ pipeline = Upstream(steps, {rm_step})
    /\ published = {}
    /\ published_pipeline = 0
    /\ schedules = {}
    /\ models = {}
    /\ \E best \in {<<>>} \cup {<<a>> : a \in ScriptArguments} : \E d \in DeleteOptions :
          runs = <<[NewRun(0, model_name) EXCEPT
                       !.status[tune_step_name] = "Finished",
                       !.status[bh_step_name] = "Running",
                       !.best_run = best,
                       !.delete = d]>>

NextScript == \E r \in DOMAIN runs : BestHyperparameters(r)

SpecScript == InitScript /\ [][NextScript]_vars

----------------------------------------------------------------------------
(* Two-step pipeline notebook (src/unnamed/part_000): a HyperDrive step,    *)
(* whose runs share the PipelineData steps_data with the next step, and     *)
(* the step "Register Best Model", which runs Best_Run.py; the pipeline is  *)
(* built from the second step, published, and run through its endpoint.    *)
(* Of a run of this pipeline, best_run and outputs are the HyperDrive       *)
(* run's best run and that run's files, and bh_steps_data the files of      *)
(* steps_data.  The HyperDrive run of pipeline run r has the id r.          *)

hd_step_name == "hd_step"
register_best_model_name == "Register Best Model"

hd_step == Step(hd_step_name, {"data_folder"}, {"steps_data"}, {})
\* with register_best_model.run_after(hd_step)
register_best_model == Step(register_best_model_name, {"steps_data"}, {}, {hd_step_name})

\* cell "Create AML Pipeline HyperDrive Step"
DefineHdStep ==
    /\ pc = "hd_step"
    /\ steps' = steps \cup {hd_step}
    /\ pc' = "register_best_model"
    /\ UNCHANGED <<error, prep, local, pipeline, runs, published, published_pipeline,
                   schedules, models>>

\* cells register_best_model = PythonScriptStep(...) and
\* register_best_model.run_after(hd_step)
DefineRegisterBestModel ==
    /\ pc = "register_best_model"
    /\ steps' = steps \cup {register_best_model}
    /\ pc' = "create_pipeline"
    /\ UNCHANGED <<error, prep, local, pipeline, runs, published, published_pipeline,
                   schedules, models>>

\* cell pipeline = Pipeline(workspace=ws, steps=[register_best_model])
CreateBestRunPipeline ==
    /\ pc = "create_pipeline"
    /\ pipeline' = Upstream(steps, {register_best_model})
    /\ pc' = "publish"
    /\ UNCHANGED <<error, prep, local, steps, runs, published, published_pipeline,
                   schedules, models>>

\* cell published_pipeline = pipeline.publish(name="HyperDrive Pipeline", ...)
PublishBestRunPipeline ==
    /\ pc = "publish"
    /\ \E id \in (1..(MaxPublished + 1)) \ published :
          /\ published' = published \cup {id}
          /\ published_pipeline' = id
    /\ pc' = "post"
    /\ UNCHANGED <<error, prep, local, steps, pipeline, runs, schedules, models>>

\* cell response = requests.post(rest_endpoint, ...): a run of the published
\* pipeline; the notebook posts once, and any caller of the endpoint may
\* post again
PostEndpoint ==
    /\ pc \in {"post", "done"}
    /\ Len(runs) < MaxRuns
    /\ runs' = Append(runs, NewRun(published_pipeline, model_name))
    /\ pc' = "done"
    /\ UNCHANGED <<error, prep, local, steps, pipeline, published, published_pipeline,
                   schedules, models>>

\* variant: every run's file holds the id of the experiment's first run
HyperDriveRunIdMut(r) == 1
\* what the HyperDrive step's runs leave in steps_data/run_id.txt, which
\* Best_Run.py reads as "HyperDrive Step run id"
HyperDriveRunId(r) == r

\* the HyperDrive step ends: failed, or finished with run_id.txt in
\* steps_data, with or without a best run, a best run with or without the
\* model file that --save FAQ_ranker makes
FinishHyperDrive(r) ==
    /\ hd_step_name \in DOMAIN runs[r].status
    /\ runs[r].status[hd_step_name] = "Running"
    /\ \E outcome \in {"Finished", "Failed"} : \E best \in BestRuns : \E saved \in BOOLEAN :
          runs' = [runs EXCEPT
                      ![r].status[hd_step_name] = outcome,
                      ![r].best_run = IF outcome = "Finished" THEN best ELSE @,
                      ![r].outputs = IF outcome = "Finished" /\ best # <<>> /\ saved
                                        THEN {SavedModel("FAQ_ranker")} ELSE @,
                      ![r].bh_steps_data = IF outcome = "Finished"
                                              THEN {[file |-> "run_id.txt",
                                                     content |-> HyperDriveRunId(r)]}
                                              ELSE @]
    /\ UNCHANGED <<pc, error, prep, local, steps, pipeline, published, published_pipeline,
                   schedules, models>>

\* scripts/Best_Run.py: read the run id, get that HyperDrive run's best run,
\* register its model; best_run.get_file_names() raises when best_run is
\* None, register_model when the run has no such file
Best_Run(r) ==
    /\ register_best_model_name \in DOMAIN runs[r].status
    /\ runs[r].status[register_best_model_name] = "Running"
    /\ LET run_id == (CHOOSE f \in runs[r].bh_steps_data : f.file = "run_id.txt").content
           hd_run == runs[run_id]
           path == Join("outputs", "FAQ_ranker.pkl")
       IN  IF hd_run.best_run # <<>> /\ path \in hd_run.outputs
           THEN /\ models' = models \cup
                       {[name |-> "FAQ_ranker", path |-> path,
                         run |-> [hd_run |-> run_id, arguments |-> hd_run.best_run[1]]]}
                /\ runs' = [runs EXCEPT ![r].status[register_best_model_name] = "Finished"]
           ELSE /\ runs' = [runs EXCEPT ![r].status[register_best_model_name] = "Failed"]
                /\ UNCHANGED models
    /\ UNCHANGED <<pc, error, prep, local, steps, pipeline, published, published_pipeline,
                   schedules>>

NextBestRun ==
    \/ DefineHdStep
    \/ DefineRegisterBestModel
    \/ CreateBestRunPipeline
    \/ PublishBestRunPipeline
    \/ PostEndpoint
    \/ \E r \in DOMAIN runs : \E s \in pipeline : StartStep(r, s)
    \/ \E r \in DOMAIN runs : FinishHyperDrive(r)
    \/ \E r \in DOMAIN runs : Best_Run(r)

InitBestRun ==
    /\ pc = "hd_step"
    /\ error = ""
    /\ PrepNotRun
    /\ LocalNotRun
    /\ steps = {}
    /\ pipeline = {}
    /\ runs = <<>>
    /\ published \in SUBSET (1..MaxPublished)
    /\ published_pipeline = 0
    /\ schedules = {}
    /\ models = {}

SpecBestRun == InitBestRun /\ [][NextBestRun]_vars

----------------------------------------------------------------------------
(* Where the notebook is                                                    *)
SplitErrors ==
    {"The number of unique questions in dupes_test is not equal to those in dupes.",
     "The number of unique questions in dupes_tune is not equal to those in dupes_train."}

AfterSortTuneTest == {"save", "done"}
AfterLabelTuneTest == {"sort_tune_test"} \cup AfterSortTuneTest
AfterMergeTuneTest == {"label_tune_test"} \cup AfterLabelTuneTest
AfterSortTrain == {"merge_tune_test"} \cup AfterMergeTuneTest
AfterLabelTrain == {"sort_train"} \cup AfterSortTrain
AfterMergeTrain == {"label_train"} \cup AfterLabelTrain
AfterSplits == {"merge_train"} \cup AfterMergeTrain

\* the rows of the pair table df that belong to the duplicate with this Id
BlockOf(df, id) == {i \in DOMAIN df : df[i].Id_x = id}

Ids(df) == Column(df, "Id")

----------------------------------------------------------------------------
(* C1: in each labelled pair table, every duplicate Id has exactly one row  *)
(* with Label = 1.                                                          *)

OneMatchPerDuplicate(df) ==
    \A id \in Column(df, "Id_x") :
        Cardinality({i \in BlockOf(df, id) : df[i].Label = 1}) = 1

C1_ExactlyOneMatchPerDuplicate ==
    /\ pc \in AfterLabelTrain => OneMatchPerDuplicate(balanced_pairs_train)
    /\ pc \in AfterLabelTuneTest =>
          /\ OneMatchPerDuplicate(balanced_pairs_tune)
          /\ OneMatchPerDuplicate(balanced_pairs_test)

(* C2: after both splits dupes_train, dupes_tune and dupes_test are         *)
(* pairwise disjoint by Id and together hold every row of dupes once.       *)

C2_SplitsPartitionDupes ==
    pc \in AfterSplits =>
        /\ Ids(dupes_train) \cap Ids(dupes_tune) = {}
        /\ Ids(dupes_train) \cap Ids(dupes_test) = {}
        /\ Ids(dupes_tune) \cap Ids(dupes_test) = {}
        /\ Range(dupes_train) \cup Range(dupes_tune) \cup Range(dupes_test) = Range(dupes)
        /\ Len(dupes_train) + Len(dupes_tune) + Len(dupes_test) = Len(dupes)

C2_Witness ==
    /\ pc = "merge_train"
    /\ dupes_train # <<>>
    /\ dupes_tune # <<>>
    /\ dupes_test # <<>>

(* C3: with min_dupes = 12 and test_size = tune_size = 0.10 neither check   *)
(* of the splitting cell raises, and after the splits every AnswerId of     *)
(* dupes has a row in each of dupes_train, dupes_tune and dupes_test.       *)

C3_EveryGroupInEverySplit ==
    /\ error \notin SplitErrors
    /\ pc \in AfterSplits =>
          \A a \in Column(dupes, "AnswerId") :
              /\ a \in Column(dupes_train, "AnswerId")
              /\ a \in Column(dupes_tune, "AnswerId")
              /\ a \in Column(dupes_test, "AnswerId")

C3_Witness ==
    /\ pc = "merge_train"
    /\ min_dupes = NotebookMinDupes
    /\ test_size = NotebookTestSize
    /\ Len(dupes) > NotebookMinDupes
    /\ Len(dupes_test) = 1

(* C4: when sampling starts, every question's AnswerId has at least         *)
(* min_dupes rows in dupes and every dupe's AnswerId is that of a question. *)

C4_ClosedWithMinDupes ==
    pc \in {"verify2", "split_test"} =>
        /\ \A i \in DOMAIN questions :
              GroupCount(dupes, questions[i].AnswerId) >= min_dupes
        /\ \A i \in DOMAIN dupes :
              dupes[i].AnswerId \in Column(questions, "AnswerId")

C4_Witness ==
    /\ pc = "split_test"
    /\ min_dupes = 2
    /\ questions # <<>>
    /\ Len(dupes) = 3

(* C5: every duplicate handed to random_merge with N has exactly            *)
(* min(N, number of questions) rows in the result: N = match for train,     *)
(* N = questions.shape[0] for tune and test.                                *)

RowsPerDuplicate(df, split, N) ==
    \A i \in DOMAIN split :
        Cardinality(BlockOf(df, split[i].Id)) = Min(N, Len(questions))

C5_RowsPerDuplicate ==
    /\ pc \in AfterMergeTrain =>
          RowsPerDuplicate(balanced_pairs_train, dupes_train, match)
    /\ pc \in AfterMergeTuneTest =>
          /\ RowsPerDuplicate(balanced_pairs_tune, dupes_tune, Len(questions))
          /\ RowsPerDuplicate(balanced_pairs_test, dupes_test, Len(questions))

C5_Witness ==
    /\ pc = "done"
    /\ match = 2
    /\ Len(questions) = 3
    /\ Len(balanced_pairs_train) = 2 * Len(dupes_train)
    /\ Len(balanced_pairs_test) = 3 * Len(dupes_test)
    /\ dupes_train # <<>>

(* C6: with N = questions.shape[0] every duplicate of tune and of test is   *)
(* paired with every question exactly once: |split| x |questions| rows, no  *)
(* (Id_x, Id_y) pair twice.                                                 *)

AllPairsOnce(df, split) ==
    /\ Len(df) = Len(split) * Len(questions)
    /\ \A i \in DOMAIN split : \A j \in DOMAIN questions :
          Cardinality({k \in DOMAIN df : /\ df[k].Id_x = split[i].Id
                                         /\ df[k].Id_y = questions[j].Id}) = 1

C6_TuneTestPairAllQuestions ==
    pc \in AfterMergeTuneTest =>
        /\ AllPairsOnce(balanced_pairs_tune, dupes_tune)
        /\ AllPairsOnce(balanced_pairs_test, dupes_test)

C6_Witness ==
    /\ pc = "done"
    /\ match = 1
    /\ Len(questions) = 2
    /\ Len(dupes_test) = 2
    /\ Len(balanced_pairs_test) = 4
    /\ \A id \in Ids(dupes_test) : Cardinality(BlockOf(balanced_pairs_test, id)) = 2

(* C7: when match is smaller than the number of questions, the Label = 0   *)
(* rows of a train duplicate are match - 1 rows with pairwise distinct      *)
(* questions, none with the duplicate's AnswerId.                           *)

Negatives(df, id) == {i \in BlockOf(df, id) : df[i].Label = 0}

C7_DistinctNonMatchingNegatives ==
    (pc \in AfterLabelTrain /\ match < Len(questions)) =>
        \A d \in Range(dupes_train) :
            LET neg == Negatives(balanced_pairs_train, d.Id)
            IN  /\ Cardinality(neg) = match - 1
                /\ \A i, j \in neg :
                      balanced_pairs_train[i].Id_y = balanced_pairs_train[j].Id_y => i = j
                /\ \A i \in neg :
                      \E q \in Range(questions) :
                          /\ q.Id = balanced_pairs_train[i].Id_y
                          /\ q.AnswerId # d.AnswerId

C7_Witness ==
    /\ pc = "done"
    /\ match = 3
    /\ Len(questions) = 5
    /\ \E d \in Range(dupes_train) :
          /\ Cardinality(NonMatches(d, questions)) = 3
          /\ Cardinality(Negatives(balanced_pairs_train, d.Id)) = 2

(* C8: the block of every duplicate of a split holds the row pairing it     *)
(* with its true match, whatever was drawn.                                 *)

HasTrueMatch(df, split) ==
    \A d \in Range(split) :
        \E i \in BlockOf(df, d.Id) : \E q \in Range(questions) :
            /\ q.AnswerId = d.AnswerId
            /\ df[i].Id_y = q.Id
            /\ df[i].AnswerId_y = d.AnswerId

C8_TrueMatchAlwaysPresent ==
    /\ pc \in AfterMergeTrain => HasTrueMatch(balanced_pairs_train, dupes_train)
    /\ pc \in AfterMergeTuneTest =>
          /\ HasTrueMatch(balanced_pairs_tune, dupes_tune)
          /\ HasTrueMatch(balanced_pairs_test, dupes_test)

C8_Witness ==
    /\ pc = "label_train"
    /\ match = 2
    /\ Len(questions) = 3
    /\ \E i \in DOMAIN balanced_pairs_train :
          /\ balanced_pairs_train[i].n = 1
          /\ balanced_pairs_train[i].Id_y = 3

(* C9: a row of a labelled pair table has Label = 1 when the duplicate and  *)
(* the question it pairs have the same AnswerId, and Label = 0 otherwise.   *)

LabelledByAnswerId(df, split) ==
    \A i \in DOMAIN df :
        /\ df[i].Label = IF df[i].AnswerId_x = df[i].AnswerId_y THEN 1 ELSE 0
        /\ \E d \in Range(split) : \E q \in Range(questions) :
              /\ d.Id = df[i].Id_x /\ d.AnswerId = df[i].AnswerId_x
              /\ q.Id = df[i].Id_y /\ q.AnswerId = df[i].AnswerId_y

C9_LabelIffSameAnswerId ==
    /\ pc \in AfterLabelTrain => LabelledByAnswerId(balanced_pairs_train, dupes_train)
    /\ pc \in AfterLabelTuneTest =>
          /\ LabelledByAnswerId(balanced_pairs_tune, dupes_tune)
          /\ LabelledByAnswerId(balanced_pairs_test, dupes_test)

C9_Witness ==
    /\ pc = "sort_tune_test"
    /\ \E i, j \in DOMAIN balanced_pairs_tune :
          /\ balanced_pairs_tune[i].Label = 1
          /\ balanced_pairs_tune[j].Label = 0
    /\ \E i, j \in DOMAIN balanced_pairs_train :
          /\ balanced_pairs_train[i].Label = 1
          /\ balanced_pairs_train[j].Label = 0

(* C10: a sorted pair table, and every pair table written, is in ascending  *)
(* Id_x order and, within one Id_x, in descending Label order; the first    *)
(* row of every block has Label = 1.                                        *)

Ordered(df) ==
    /\ \A i \in 1..(Len(df) - 1) :
          \/ df[i].Id_x < df[i + 1].Id_x
          \/ df[i].Id_x = df[i + 1].Id_x /\ df[i].Label >= df[i + 1].Label
    /\ \A i \in DOMAIN df :
          (i = 1 \/ df[i - 1].Id_x # df[i].Id_x) => df[i].Label = 1

C10_PairTablesOrdered ==
    /\ pc \in AfterSortTrain => Ordered(balanced_pairs_train)
    /\ pc \in AfterSortTuneTest =>
          /\ Ordered(balanced_pairs_tune)
          /\ Ordered(balanced_pairs_test)
    /\ pc = "done" =>
          /\ Ordered(files.balanced_pairs_train)
          /\ Ordered(files.balanced_pairs_tune)
          /\ Ordered(files.balanced_pairs_test)

C10_Witness ==
    /\ pc = "done"
    /\ Cardinality(Column(files.balanced_pairs_train, "Id_x")) >= 2
    /\ Cardinality(Column(files.balanced_pairs_test, "Id_x")) >= 2
    /\ \E i \in DOMAIN files.balanced_pairs_train : files.balanced_pairs_train[i].Label = 0

(* C11: round_sample_strat takes from each AnswerId group the integer       *)
(* nearest to frac x group size (the even one of the two at a tie), as      *)
(* distinct rows of that group; a group of 5 at frac = 0.10 gives 0 rows   *)
(* in every run.                                                            *)

TestMessage == "The number of unique questions in dupes_test is not equal to those in dupes."
TuneMessage == "The number of unique questions in dupes_tune is not equal to those in dupes_train."

\* the first, and the second, half of the splitting cell has run
SplitTestDone == pc \in {"split_tune"} \cup AfterSplits \/ error \in SplitErrors
SplitTuneDone == pc \in AfterSplits \/ error = TuneMessage

\* c is the integer nearest to frac percent of size, the even one at a tie
NearestCount(c, frac, size) ==
    /\ 2 * (100 * c - frac * size) <= 100
    /\ 2 * (frac * size - 100 * c) <= 100
    /\ (2 * (100 * c - frac * size) \in {100, -100}) => c % 2 = 0

\* sample holds distinct rows of df
SampledWithoutReplacement(sample, df) ==
    /\ Range(sample) \subseteq Range(df)
    /\ Cardinality(Ids(sample)) = Len(sample)

ZeroContribution(sample, df) ==
    \E a \in Column(df, "AnswerId") : a \notin Column(sample, "AnswerId")

\* the rows the tune split was sampled from: dupes less the test split
TuneInput == WithoutIds(dupes, dupes_test)

\* as the specification words it: the split is accepted
C12_ZeroContributionAccepted ==
    /\ (SplitTestDone /\ ZeroContribution(dupes_test, dupes)) => pc # "raised"
    /\ (SplitTuneDone /\ ZeroContribution(dupes_tune, TuneInput)) => pc # "raised"

C12_ZeroContributionRaises ==
    /\ (SplitTestDone /\ ZeroContribution(dupes_test, dupes)) =>
          pc = "raised" /\ error = TestMessage
    /\ (SplitTuneDone /\ ZeroContribution(dupes_tune, TuneInput)) =>
          pc = "raised" /\ error = TuneMessage
    /\ error \in SplitErrors =>
          /\ balanced_pairs_train = <<>>
          /\ balanced_pairs_tune = <<>>
          /\ balanced_pairs_test = <<>>
          /\ files = <<>>

C12_Witness ==
    /\ pc = "raised"
    /\ error = TuneMessage
    /\ dupes_test # <<>>
    /\ ZeroContribution(dupes_tune, TuneInput)

(* C13: the referential-integrity checks do not follow every filtering      *)
(* stage.  They run twice: after the closure filter, which ends the run of  *)
(* empty-text removal, Id de-duplication and closure, and after the         *)
(* min_dupes filter, which ends the run of min_text, closure re-filter and  *)
(* min_dupes; the min_text filter starts only when the first check passed   *)
(* and the sampling only when the second passed; a check changes no table.  *)

FilterStages == {"drop_empty", "dedupe", "closure", "min_text", "closure2", "min_dupes"}
CheckStages == {"verify", "verify2"}

\* as the specification words it: every filtering stage is followed by the checks
C13_CheckAfterEveryFilter == [][(pc \in FilterStages) => (pc' \in CheckStages)]_vars

C13_CheckAfterEachFilterGroup ==
    [][/\ pc = "drop_empty" => pc' = "dedupe"
       /\ pc = "dedupe" => pc' = "closure"
       /\ pc = "closure" => pc' = "verify"
       /\ pc' = "reset_index" => (pc = "verify" /\ VerifyMessage = "")
       /\ pc' = "min_text" => pc = "reset_index"
       /\ pc = "min_text" => pc' = "closure2"
       /\ pc = "closure2" => pc' = "min_dupes"
       /\ pc = "min_dupes" => pc' = "verify2"
       /\ pc' = "split_test" => (pc = "verify2" /\ Verify2Message = "")
       /\ pc \in CheckStages => UNCHANGED tables]_vars

C13_Witness ==
    /\ pc = "split_test"
    /\ error = ""
    /\ questions # <<>>
    /\ Len(answers) > Len(questions)

(* C14: the notebook never goes past the second integrity check with a      *)
(* duplicate whose AnswerId no question has, so every pair table is made    *)
(* from duplicates that have a question, and every duplicate of a split has *)
(* at least one row in the pair table of that split.                        *)

PastVerify2 == {"split_test", "split_tune"} \cup AfterSplits

\* every row of split has a question of its AnswerId and rows of its own in df
NoPairlessDuplicate(df, split) ==
    \A d \in Range(split) :
        /\ d.AnswerId \in Column(questions, "AnswerId")
        /\ BlockOf(df, d.Id) # {}

SamplingMessage == "random_merge: more negative samples requested than exist"

\* the questions that can be a negative of d
Available(d) == {j \in DOMAIN questions : questions[j].AnswerId # d.AnswerId}

\* the rows of df that pair d with a question of another AnswerId
NegativeRows(df, d) == {i \in BlockOf(df, d.Id) : df[i].AnswerId_y # d.AnswerId}

\* every duplicate of split had N - 1 negatives to draw, and has them in df
FullyDrawn(df, split, N) ==
    \A d \in Range(split) :
        /\ Cardinality(Available(d)) >= N - 1
        /\ Cardinality(NegativeRows(df, d)) = N - 1

\* every duplicate of split is paired with each of its negatives once
AllNegatives(df, split) ==
    \A d \in Range(split) :
        Cardinality(NegativeRows(df, d)) = Cardinality(Available(d))

AllSomeText(df) == \A i \in DOMAIN df : df[i].Len > 0
AllLongText(df) == \A i \in DOMAIN df : df[i].Len >= min_text

C17_TextLengths ==
    /\ pc # "drop_empty" =>
          AllSomeText(questions) /\ AllSomeText(dupes) /\ AllSomeText(answers)
    /\ pc \in PastVerify2 =>
          /\ AllLongText(questions) /\ AllLongText(dupes)
          /\ AllLongText(dupes_train) /\ AllLongText(dupes_tune) /\ AllLongText(dupes_test)
    /\ pc = "done" =>
          /\ AllLongText(files.questions) /\ AllSomeText(files.answers)
          /\ AllLongText(files.dupes_train) /\ AllLongText(files.dupes_tune)
          /\ AllLongText(files.dupes_test)

C17_Witness ==
    /\ pc = "done"
    /\ \E r \in Range(files.questions) : r.Len = min_text
    /\ \E r \in Range(files.dupes_train) : r.Len = min_text
    /\ \E r \in Range(files.dupes_test) : r.Len = min_text

(* C18: from the second integrity check to the end nothing changes          *)
(* questions or dupes, a sorted pair table is not changed again, and the    *)
(* tables written are the tables in memory: questions.tsv is the questions  *)
(* table random_merge was given for train, tune and test.                   *)

C18_ReadOnlyAfterChecks ==
    /\ [][/\ pc \in {"verify2"} \cup PastVerify2 => UNCHANGED <<questions, dupes>>
          /\ pc \in AfterSortTrain => UNCHANGED balanced_pairs_train
          /\ pc \in AfterSortTuneTest => UNCHANGED <<balanced_pairs_tune, balanced_pairs_test>>
          /\ pc \in AfterSplits => UNCHANGED splits]_vars
    /\ [](pc = "done" =>
             /\ files.questions = questions
             /\ files.dupes_train = dupes_train
             /\ files.dupes_tune = dupes_tune
             /\ files.dupes_test = dupes_test
             /\ files.balanced_pairs_train = balanced_pairs_train
             /\ files.balanced_pairs_tune = balanced_pairs_tune
             /\ files.balanced_pairs_test = balanced_pairs_test)

C18_Witness ==
    /\ pc = "done"
    /\ Len(files.questions) >= 2
    /\ files.questions = questions
    /\ files.balanced_pairs_train # <<>>
    /\ files.balanced_pairs_test # <<>>

(* C19: when the parameters cell of the local run notebook still holds both *)
(* placeholders, the check raises and no call to Azure is ever made; when a *)
(* subscription id is given, with or without a name, it is the value        *)
(* az account set is called with and the subscription it selects.           *)

BeforeIdIsReadBack == {"login", "set_subscription", "get_subscription_id"}

C19_SubscriptionCheck ==
    /\ (subscription_name = "YOUR_SUBSCRIPTION_NAME" /\ subscription_id = "YOUR_SUBSCRIPTION_ID") =>
          /\ pc \in {"check_subscription", "raised"}
          /\ az_calls = <<>>
    /\ error = "At least one of a subscription's name or ID must be supplied" =>
          pc = "raised" /\ az_calls = <<>>
    /\ (pc \in BeforeIdIsReadBack /\ subscription_id # "YOUR_SUBSCRIPTION_ID") =>
          subscription_name = subscription_id
    /\ (pc = "get_subscription_id" /\ subscription_id # "YOUR_SUBSCRIPTION_ID") =>
          /\ az_calls[Len(az_calls)] = <<"az account set", subscription_id>>
          /\ subscription_id \in SubscriptionIds => az_default = subscription_id

C19_Witness ==
    /\ pc = "get_subscription_id"
    /\ subscription_id = "id-b"
    /\ az_default = "id-b"
    /\ <<"az login", "">> \in Range(az_calls)

----------------------------------------------------------------------------
(* C16: the pipeline built from steps=[rm_step] holds all four steps, and   *)
(* in every run of it, the notebook's or the schedule's, no step has        *)
(* started unless the step before it in the order tune_model,               *)
(* best_parameters, best_model, register_model has finished; a model is     *)
(* registered only by a run whose best_model step has finished.             *)
StepOrder == <<tune_step_name, bh_step_name, bm_step_name, rm_step_name>>

Started(run, n) == run.status[n] # "NotStarted"

C16_StepsInOrder ==
    /\ pipeline # {} => {s.name : s \in pipeline} = Range(StepOrder)
    /\ \A r \in DOMAIN runs :
          /\ DOMAIN runs[r].status = Range(StepOrder)
          /\ \A i \in 2..Len(StepOrder) :
                Started(runs[r], StepOrder[i]) =>
                    runs[r].status[StepOrder[i - 1]] = "Finished"
    /\ \A m \in models :
          /\ m.run \in DOMAIN runs
          /\ m.name = runs[m.run].model_name
          /\ runs[m.run].status[bm_step_name] = "Finished"

\* a run of the published pipeline, made by the schedule, has finished all
\* four steps and registered its model
C16_Witness ==
    \E r \in DOMAIN runs :
        /\ r >= 2
        /\ published_pipeline # 0
        /\ runs[r].pipeline_id = published_pipeline
        /\ \A n \in Range(StepOrder) : runs[r].status[n] = "Finished"
        /\ \E m \in models : m.run = r

----------------------------------------------------------------------------
(* C20: when the pipeline is published, the notebook has submitted a run    *)
(* of it and that run is over; a schedule exists only once the pipeline is  *)
(* published, it is hourly, and it is for the published pipeline's id, so   *)
(* every run it makes is a run of that pipeline.                            *)
C20_SubmitWaitPublishSchedule ==
    /\ published_pipeline # 0 =>
          /\ published_pipeline \in published
          /\ Len(runs) >= 1
          /\ runs[1].pipeline_id = 0
          /\ RunComplete(runs[1])
    /\ pc \in {"schedule", "done"} => published_pipeline # 0
    /\ \A s \in schedules :
          /\ published_pipeline # 0
          /\ s.pipeline_id = published_pipeline
          /\ s.frequency = "Hour"
          /\ s.interval = 1
    /\ \A r \in DOMAIN runs :
          r >= 2 => published_pipeline # 0 /\ runs[r].pipeline_id = published_pipeline

\* the schedule is there, in a workspace that holds another published
\* pipeline, and has made a run
C20_Witness ==
    /\ schedules # {}
    /\ published \ {published_pipeline} # {}
    /\ Len(runs) >= 2
    /\ pc = "done"

----------------------------------------------------------------------------
(* C21: once the de-duplication cell has run, and in every later cell up    *)
(* to and including the save, no Id occurs twice in questions, none occurs  *)
(* twice in dupes, and no Id is in both.                                    *)
UniqueIds(df) == \A i, j \in DOMAIN df : df[i].Id = df[j].Id => i = j

BeforeDedupe == {"drop_empty", "dedupe"}

C21_IdsUniqueAndDisjoint ==
    pc \notin BeforeDedupe =>
        /\ UniqueIds(questions)
        /\ UniqueIds(dupes)
        /\ Ids(questions) \cap Ids(dupes) = {}
        /\ pc = "done" => UniqueIds(files.questions)

\* the tables are saved with several questions and several duplicates left
C21_Witness ==
    /\ pc = "done"
    /\ error = ""
    /\ Len(files.questions) >= 2
    /\ Len(dupes) >= 3

----------------------------------------------------------------------------
(* C22: when the HyperDrive step of a run has finished without a best run   *)
(* and Best_Hyperparameters.py has ended, the script raised "No best run    *)
(* was found", the hyperparameters file was not written, and the            *)
(* best_model step of that run has not started.                             *)
Ended(run, n) == run.status[n] \in {"Finished", "Failed"}

NoBestRun(run) == run.status[tune_step_name] = "Finished" /\ run.best_run = <<>>

C22_NoBestRunNoFile ==
    \A r \in DOMAIN runs :
        (Ended(runs[r], bh_step_name) /\ NoBestRun(runs[r])) =>
            /\ runs[r].error = "No best run was found"
            /\ runs[r].status[bh_step_name] = "Failed"
            /\ runs[r].bh_steps_data = {}
            /\ runs[r].status[bm_step_name] = "NotStarted"
            /\ runs[r].outputs = {}

\* a run of the published pipeline ended that way, after the notebook's run
\* found a best run
C22_Witness ==
    \E r \in DOMAIN runs :
        /\ r >= 2
        /\ NoBestRun(runs[r])
        /\ runs[r].error = "No best run was found"
        /\ runs[1].bh_steps_data # {}

----------------------------------------------------------------------------
(* C23: the file Best_Hyperparameters.py writes maps every name of the best *)
(* run's argument list, taken in (name, value) pairs and stripped of "-"    *)
(* at both ends, to the value that follows it, except the names listed in   *)
(* --delete; with the default --delete it has no key "estimators", so the   *)
(* best_model step is given a number of estimators by its --estimators      *)
(* argument, the parameter best_estimators, alone.                          *)
RECURSIVE Dashes(_)
Dashes(n) == IF n = 0 THEN "" ELSE "-" \o Dashes(n - 1)

NoDashAtEnds(k) == k = "" \/ (Head(k) # "-" /\ SubSeq(k, Len(k), Len(k)) # "-")

\* k is s without the "-" at its ends
StrippedOf(k, s) ==
    /\ NoDashAtEnds(k)
    /\ \E a, b \in 0..Len(s) : s = Dashes(a) \o k \o Dashes(b)

\* k is an item of the comma-separated list
Listed(k, list) ==
    /\ \A j \in 1..Len(k) : SubSeq(k, j, j) # ","
    /\ \E i \in 1..(Len(list) + 1) :
          /\ i + Len(k) - 1 <= Len(list)
          /\ SubSeq(list, i, i + Len(k) - 1) = k
          /\ i = 1 \/ SubSeq(list, i - 1, i - 1) = ","
          /\ i + Len(k) = Len(list) + 1 \/ SubSeq(list, i + Len(k), i + Len(k)) = ","

Substrings(s) == {SubSeq(s, a, b) : a \in 1..(Len(s) + 1), b \in 0..Len(s)}

\* where the best_model step gets a number of estimators from: its
\* argument "--estimators", bm_estimators, and the hyperparameters file
EstimatorsSources(run) ==
    {"best_estimators"} \cup
    {f.file : f \in {g \in run.bh_steps_data : "estimators" \in DOMAIN g.content}}

C23_WrittenHyperparameters ==
    \A r \in DOMAIN runs : \A f \in runs[r].bh_steps_data :
        LET parameter_values == runs[r].best_run[1]
            n == Len(parameter_values) \div 2
        IN  /\ f.file = bh_hyperparameters_file
            /\ \A k \in DOMAIN f.content :
                  /\ ~ Listed(k, runs[r].delete)
                  /\ \E i \in 1..n :
                        /\ StrippedOf(k, parameter_values[2 * i - 1])
                        /\ f.content[k] = parameter_values[2 * i]
            /\ \A i \in 1..n : \E k \in Substrings(parameter_values[2 * i - 1]) :
                  /\ StrippedOf(k, parameter_values[2 * i - 1])
                  /\ k \in DOMAIN f.content \/ Listed(k, runs[r].delete)
            /\ runs[r].delete = delete_default =>
                  /\ "estimators" \notin DOMAIN f.content
                  /\ EstimatorsSources(runs[r]) = {"best_estimators"}

\* the file is written from a list that gives --estimators, with the
\* default --delete, and holds the other hyperparameters
C23_Witness ==
    \E r \in DOMAIN runs : \E f \in runs[r].bh_steps_data :
        /\ runs[r].delete = delete_default
        /\ "--estimators" \in Range(runs[r].best_run[1])
        /\ {"ngrams", "match"} \subseteq DOMAIN f.content

----------------------------------------------------------------------------
(* C24: whatever value a run gives the parameter model_name, when           *)
(* Register_Model.py has ended the model is registered under the name that  *)
(* the best_model step was given as --save, from the file                   *)
(* outputs/<that name>.pkl, which is a file of the best_model step's run.   *)
C24_RegisteredNameIsSavedName ==
    /\ \A m \in models :
          /\ m.run \in DOMAIN runs
          /\ m.name = bm_save(runs[m.run])
          /\ m.path = "outputs/" \o bm_save(runs[m.run]) \o ".pkl"
          /\ m.path \in runs[m.run].outputs
    /\ \A r \in DOMAIN runs :
          Ended(runs[r], rm_step_name) => \E m \in models : m.run = r

\* a model is registered under a name that is not the parameter's default
C24_Witness ==
    \E m \in models :
        /\ m.name # model_name
        /\ m.name \in ModelNames
        /\ runs[m.run].status[rm_step_name] = "Finished"

----------------------------------------------------------------------------
----------------------------------------------------------------------------
(* C26: neither integrity check raises: when the first check is reached     *)
(* its four conditions hold, when the second is reached its two conditions  *)
(* hold, and no run ends with one of their messages.                        *)
VerifyMessages ==
    {"Not all original questions have answers",
     "Not all answers have original questions.",
     "Not all original questions have duplicates.",
     "Not all duplicates have original questions."}

C26_ChecksNeverRaise ==
    /\ pc = "verify" =>
          /\ Column(questions, "AnswerId") = Column(answers, "Id")
          /\ Column(questions, "AnswerId") = Column(dupes, "AnswerId")
          /\ VerifyMessage = ""
    /\ pc = "verify2" =>
          /\ Column(questions, "AnswerId") = Column(dupes, "AnswerId")
          /\ Verify2Message = ""
    /\ error \notin VerifyMessages

\* both checks are passed with one question left of two, and both answers
C26_Witness ==
    /\ pc = "split_test"
    /\ error = ""
    /\ Len(questions) = 1
    /\ Len(answers) = 2
    /\ Len(dupes) >= 2

----------------------------------------------------------------------------
(* C27: when the pair tables are generated, no two rows of questions have   *)
(* the same AnswerId.                                                       *)
UniqueAnswerIds(df) == \A i, j \in DOMAIN df : df[i].AnswerId = df[j].AnswerId => i = j

C27_OneQuestionPerAnswerId ==
    pc \in {"merge_train", "merge_tune_test"} => UniqueAnswerIds(questions)

----------------------------------------------------------------------------
(* C28: every row of the answers table that is written has an Id that is    *)
(* the AnswerId of a row of the questions table that is written.            *)
C28_WrittenAnswersHaveQuestions ==
    pc = "done" =>
        Column(files.answers, "Id") \subseteq Column(files.questions, "AnswerId")

----------------------------------------------------------------------------
(* C29: once a pair table is generated, the Id_x values in it are exactly   *)
(* the Ids of the split it was generated from, so no Id_x is in two of the  *)
(* three pair tables.                                                       *)
DuplicateIds(df) == Column(df, "Id_x")

C29_PairTablesCoverTheirSplits ==
    /\ pc \in AfterMergeTrain =>
          DuplicateIds(balanced_pairs_train) = Ids(dupes_train)
    /\ pc \in AfterMergeTuneTest =>
          /\ DuplicateIds(balanced_pairs_tune) = Ids(dupes_tune)
          /\ DuplicateIds(balanced_pairs_test) = Ids(dupes_test)
          /\ DuplicateIds(balanced_pairs_train) \cap DuplicateIds(balanced_pairs_tune) = {}
          /\ DuplicateIds(balanced_pairs_train) \cap DuplicateIds(balanced_pairs_test) = {}
          /\ DuplicateIds(balanced_pairs_tune) \cap DuplicateIds(balanced_pairs_test) = {}

\* the three pair tables are written, each with duplicates, and together
\* they hold every duplicate
C29_Witness ==
    /\ pc = "done"
    /\ DuplicateIds(files.balanced_pairs_train) # {}
    /\ DuplicateIds(files.balanced_pairs_tune) # {}
    /\ DuplicateIds(files.balanced_pairs_test) # {}
    /\ DuplicateIds(files.balanced_pairs_train) \cup DuplicateIds(files.balanced_pairs_tune)
          \cup DuplicateIds(files.balanced_pairs_test) = Ids(dupes)
    /\ Len(dupes) >= 6

----------------------------------------------------------------------------
(* C30: the rows of the tune and test pair tables, with their labels, are   *)
(* those that the split and the questions table determine: one row for      *)
(* each duplicate of the split and each question, labelled by the equality  *)
(* of their AnswerIds; no draw changes them.  The train pair table is not   *)
(* determined: another draw gives other rows.                               *)
PairOf(d, q) ==
    [Id_x |-> d.Id, AnswerId_x |-> d.AnswerId, Text_x |-> d.Len,
     Id_y |-> q.Id, Text_y |-> q.Len, AnswerId_y |-> q.AnswerId,
     Label |-> IF d.AnswerId = q.AnswerId THEN 1 ELSE 0]

\* the rows that a split and the questions table determine
DeterminedRows(dupes_split) == {PairOf(d, q) : d \in Range(dupes_split), q \in Range(questions)}

\* the rows of a labelled pair table, without the candidate's number
RowsOf(df) ==
    {[Id_x |-> r.Id_x, AnswerId_x |-> r.AnswerId_x, Text_x |-> r.Text_x,
      Id_y |-> r.Id_y, Text_y |-> r.Text_y, AnswerId_y |-> r.AnswerId_y,
      Label |-> r.Label] : r \in Range(df)}

C30_TuneTestRowsDetermined ==
    /\ pc = "merge_tune_test" =>
          /\ \A t \in random_merge(dupes_tune, questions, TuneTestN) :
                RowsOf(Labelled(t)) = DeterminedRows(dupes_tune)
          /\ \A t \in random_merge(dupes_test, questions, TuneTestN) :
                RowsOf(Labelled(t)) = DeterminedRows(dupes_test)
    /\ pc \in AfterLabelTuneTest =>
          /\ RowsOf(balanced_pairs_tune) = DeterminedRows(dupes_tune)
          /\ RowsOf(balanced_pairs_test) = DeterminedRows(dupes_test)

\* the tune and test pair tables are made, and another draw would have
\* given the train pair table other rows
C30_Witness ==
    /\ pc = "sort_tune_test"
    /\ balanced_pairs_tune # <<>>
    /\ balanced_pairs_test # <<>>
    /\ \E t \in random_merge(dupes_train, questions, TrainN) :
          RowsOf(Labelled(t)) # RowsOf(balanced_pairs_train)

====
